---- MODULE Spec2Model ----
(***************************************************************************)
(* Model of the heatmap extension (src/src/extension.ts, first draft of    *)
(* the file, lines 1-596) together with the configuration schema of        *)
(* src/package.json.                                                       *)
(*                                                                         *)
(* Spec        : the renderer state machine (commands, configuration       *)
(*               changes, visibility changes).  Every handler of the       *)
(*               extension runs to completion on the extension host's      *)
(*               single thread, so each handler is one action.             *)
(* SpecPalette : the same handlers with one editor and a wider range of    *)
(*               heatLevels and colours.                                   *)
(* SpecLong    : the same handlers with one editor, on files with a long   *)
(*               history.                                                  *)
(* SpecBlame   : getGitLineInfo as a function of the blame output.         *)
(* SpecRank    : getGitLineInfo on files with up to MaxCommits commits.    *)
(* SpecBucket  : the bucket computations as functions of the signal.       *)
(* SpecDetect  : detectVcsType as a function of the directories above the  *)
(*               file.                                                     *)
(* SpecCounts  : getGitModificationCounts as a function of what git log    *)
(*               does for each line.                                       *)
(***************************************************************************)
EXTENDS Integers, Sequences, FiniteSets, TLC

VARIABLES
    enabledForFiles,  \* line 14: the set of documents with the heatmap on
    heatStyles,       \* line 13: the decoration types, one colour string each
    visible,          \* vscode.window.visibleTextEditors (one editor per document)
    order,            \* the same editors in the order of that array
    workspace,        \* the files that the documents can be editors of
    active,           \* vscode.window.activeTextEditor, or NoEditor
    cfg,              \* the "heatmap" section of the configuration store
    paint,            \* per document: the decorations its editor shows
    cycle,            \* per document: how the last render cycle for it ended
    shown,            \* warnings and errors shown to the user by the last handler
    lastOp,           \* the handler that ran last
    enabledBefore,    \* enabledForFiles as it was when that handler started
    blameIn,          \* SpecBlame: the document and what git blame finds
    blameOut,         \* SpecBlame: the result of getGitLineInfo
    blamePc,          \* SpecBlame: "ready" or "done"
    fnIn,             \* SpecBucket, SpecDetect, SpecCounts: the arguments
    fnOut,            \* the result of the function
    fnPc              \* "ready" or "done"

vars == <<enabledForFiles, heatStyles, visible, order, workspace, active, cfg,
          paint, cycle, shown, lastOp, enabledBefore,
          blameIn, blameOut, blamePc, fnIn, fnOut, fnPc>>

rendererVars == <<enabledForFiles, heatStyles, visible, order, workspace, active, cfg,
                  paint, cycle, shown, lastOp, enabledBefore>>
blameVars == <<blameIn, blameOut, blamePc>>
fnVars == <<fnIn, fnOut, fnPc>>
functionVars == <<blameVars, fnVars>>

----------------------------------------------------------------------------
(* Bounds *)

MaxLevels == 3       \* SpecPalette: largest heatLevels tried
MaxLines == 3        \* SpecBlame: largest document
MaxTime == 3         \* SpecBlame: commit timestamps are 1..MaxTime
MaxCommits == 10     \* SpecRank: most commits in a file's history
MaxDepth == 7        \* SpecDetect: most directories from the file's up to the root
MaxCount == 5        \* SpecBucket, SpecCounts: largest modification count
MaxBucketLevels == 10 \* SpecBucket: largest number of levels

(* Program constants *)

DEFAULT_HEAT_LEVELS == 10
numAgeLevels == 10

Docs == {"d1", "d2"}
NoEditor == "none"

----------------------------------------------------------------------------
(* Colours.  A colour is <<r, g, b, a>>, channels 0..255, the alpha channel *)
(* in the 1/255 units that hexa() prints.                                   *)

Red(c) == c[1]
Green(c) == c[2]
Blue(c) == c[3]
Alpha(c) == c[4]

DEFAULT_HEAT_COLOUR == <<200, 0, 0, 255>>

\* Math.round(x / y) for x >= 0, y > 0
RoundDiv(x, y) == (2 * x + y) \div (2 * y)

\* heatColor.alpha(0)
WithAlpha0(c) == <<Red(c), Green(c), Blue(c), 0>>

\* this.mix(mixin, p).hexa() of the color package, p = pn / pd in [0, 1]:
\*   w = 2p - 1; a = mixin.alpha - this.alpha;
\*   w1 = (((w * a === -1) ? w : (w + a) / (1 + w * a)) + 1) / 2; w2 = 1 - w1;
\*   rgb = w1 * mixin + w2 * this; alpha = mixin.alpha * p + this.alpha * (1 - p)
\* and hexa() rounds every channel.  With a = A / 255:
\*   (w + a) / (1 + w * a) = N / D,  w1 = (N + D) / (2 * D).
MixHexa(this, mixin, pn, pd) ==
    LET A == Alpha(mixin) - Alpha(this)
        N == (2 * pn - pd) * 255 + A * pd
        D == 255 * pd + (2 * pn - pd) * A
        \* w1 = w1n / w1d
        w1n == IF D = 0 THEN pn ELSE N + D
        w1d == IF D = 0 THEN pd ELSE 2 * D
        ch(x, y) == RoundDiv(w1n * x + (w1d - w1n) * y, w1d)
    IN  << ch(Red(mixin), Red(this)),
           ch(Green(mixin), Green(this)),
           ch(Blue(mixin), Blue(this)),
           RoundDiv(Alpha(mixin) * pn + Alpha(this) * (pd - pn), pd) >>

----------------------------------------------------------------------------
(* Configuration.  heatColour / coolColour hold the result of              *)
(* colorFromString on the stored string: a colour, or NoColour when the    *)
(* string does not parse (the empty default of coolColour included).       *)

NoColour == <<>>

\* package.json: "enum": ["line_commit", "age"]; the set-mode commands
\* store "absolute" and "relative".
SchemaModes == {"age", "line_commit"}
CommandModes == {"relative", "absolute"}
Modes == SchemaModes \cup CommandModes

\* config.get<number>("heatLevels") || DEFAULT_HEAT_LEVELS
EffectiveLevels(c) == IF c.heatLevels = 0 THEN DEFAULT_HEAT_LEVELS ELSE c.heatLevels

\* colorFromString(config.get("heatColour", ""), DEFAULT_HEAT_COLOUR)
HeatColor(c) == IF c.heatColour = NoColour THEN DEFAULT_HEAT_COLOUR ELSE c.heatColour

\* colorFromString(config.get("coolColour", ""), heatColor.alpha(0))
CoolColor(c) == IF c.coolColour = NoColour THEN WithAlpha0(HeatColor(c)) ELSE c.coolColour

\* the palette mixed from the hot end
PaletteOfReversed(levels, hot, cool) ==
    [i \in 1..levels |->
        MixHexa(hot, cool,
                IF levels > 1 THEN i - 1 ELSE 0,
                IF levels > 1 THEN levels - 1 ELSE 1)]

\* lines 535-548: the colour strings of the new decoration types
PaletteOf(levels, hot, cool) ==
    [i \in 1..levels |->
        MixHexa(cool, hot,
                IF levels > 1 THEN i - 1 ELSE 0,
                IF levels > 1 THEN levels - 1 ELSE 1)]

\* lines 522-527: the guard of buildDecorations
LevelsRejected(c) == EffectiveLevels(c) < 1

----------------------------------------------------------------------------
(* git blame -p.  The output is a sequence of lines; the model keeps of     *)
(* each line what the two regular expressions and startsWith() look at.     *)

Hashes == {"h1", "h2", "h3"}
ZeroHash == "h0"       \* "0000000000000000000000000000000000000000"
Undefined == -1        \* JavaScript undefined, where a number is expected
BlameFailed == [ok |-> FALSE, lines |-> <<>>]  \* execSync threw
BlameOutput(lines) == [ok |-> TRUE, lines |-> lines]

HeaderLine(h, n) == [kind |-> "header", hash |-> h, final |-> n, time |-> Undefined]
CommitterTimeLine(t) == [kind |-> "committer-time", hash |-> ZeroHash, final |-> 0, time |-> t]
OtherLine == [kind |-> "other", hash |-> ZeroHash, final |-> 0, time |-> Undefined]

\* the hash of the n-th commit of a file's history
Commit(n) == "c" \o ToString(n)
Commits == {Commit(n) : n \in 1..MaxCommits}

\* What git prints for a file of Len(who) lines, line n last touched by
\* commit who[n] made at time[who[n]]: per line a header, the commit's
\* details the first time the commit shows up, and the tab-indented content.
RECURSIVE Porcelain(_, _, _)
Porcelain(who, time, n) ==
    IF n = 0 THEN <<>>
    ELSE Porcelain(who, time, n - 1)
         \o <<HeaderLine(who[n], n)>>
         \o (IF \E k \in 1..(n - 1) : who[k] = who[n]
             THEN <<>>
             ELSE <<OtherLine, CommitterTimeLine(time[who[n]]), OtherLine>>)
         \o <<OtherLine>>

\* lines 112-123, pass 1: hash -> timestamp.  st = <<currentHash, hashCache>>
RECURSIVE CollectHashTimes(_, _, _)
CollectHashTimes(lines, i, st) ==
    IF i > Len(lines) THEN st[2]
    ELSE LET line == lines[i]
             currentHash == st[1]
             hashCache == st[2]
         IN  IF line.kind = "header"
             THEN CollectHashTimes(lines, i + 1, <<line.hash, hashCache>>)
             ELSE IF line.kind = "committer-time"
             THEN CollectHashTimes(lines, i + 1,
                    <<currentHash,
                      [h \in DOMAIN hashCache \cup {currentHash} |->
                          IF h = currentHash THEN line.time ELSE hashCache[h]]>>)
             ELSE CollectHashTimes(lines, i + 1, st)

EmptyCache == [h \in {} |-> 0]

\* Array.prototype.sort((a, b) => a - b) on the distinct values
RECURSIVE SortAscending(_)
SortAscending(S) ==
    IF S = {} THEN <<>>
    ELSE LET m == CHOOSE x \in S : \A y \in S : x <= y
         IN  <<m>> \o SortAscending(S \ {m})

\* lines 127-129
UniqueTimestamps(hashCache) ==
    SortAscending({hashCache[h] : h \in DOMAIN hashCache})

\* ranks that start from 0
TimestampToRankFromZero(uniqueTimestamps) ==
    [ts \in {uniqueTimestamps[k] : k \in 1..Len(uniqueTimestamps)} |->
        (CHOOSE k \in 1..Len(uniqueTimestamps) : uniqueTimestamps[k] = ts) - 1]

\* lines 130-133: timestampToRank.set(ts, index + 1)
TimestampToRank(uniqueTimestamps) ==
    [ts \in {uniqueTimestamps[k] : k \in 1..Len(uniqueTimestamps)} |->
        CHOOSE k \in 1..Len(uniqueTimestamps) : uniqueTimestamps[k] = ts]

\* lines 138-152, pass 2: rawLineTimestamps[finalLineNumber - 1] = timestamp
RECURSIVE RawLineTimestamps(_, _, _, _)
RawLineTimestamps(lines, i, hashCache, raw) ==
    IF i > Len(lines) THEN raw
    ELSE LET line == lines[i]
         IN  IF line.kind = "header" /\ line.hash \in DOMAIN hashCache
             THEN RawLineTimestamps(lines, i + 1, hashCache,
                    [n \in DOMAIN raw \cup {line.final} |->
                        IF n = line.final THEN hashCache[line.hash] ELSE raw[n]])
             ELSE RawLineTimestamps(lines, i + 1, hashCache, raw)

\* an unblamed line scored like the newest commit
UnblamedScoreAsNewest(uniqueTimestamps) ==
    IF Len(uniqueTimestamps) > 0 THEN Len(uniqueTimestamps) ELSE 1

\* lines 164-165: the score of a line without a timestamp
UnblamedScore(uniqueTimestamps) ==
    IF Len(uniqueTimestamps) > 0 THEN Len(uniqueTimestamps) + 1 ELSE 1

\* line 169: timestampToRank.get(timestamp) || 1
BlamedScore(timestampToRank, timestamp) ==
    IF timestamp \in DOMAIN timestampToRank THEN timestampToRank[timestamp] ELSE 1

\* lines 91-180.  blame.ok is FALSE when execSync threw; the result is
\* undefined (defined = FALSE) or one LineInfo per document line.
getGitLineInfo(lineCount, blame) ==
    IF ~blame.ok THEN [defined |-> FALSE, infos |-> <<>>]
    ELSE LET hashCache == CollectHashTimes(blame.lines, 1, <<ZeroHash, EmptyCache>>)
             uniqueTimestamps == UniqueTimestamps(hashCache)
             timestampToRank == TimestampToRank(uniqueTimestamps)
             raw == RawLineTimestamps(blame.lines, 1, hashCache,
                                      [n \in 1..lineCount |-> Undefined])
             score(ts) == IF ts = Undefined
                          THEN UnblamedScore(uniqueTimestamps)
                          ELSE BlamedScore(timestampToRank, ts)
         IN  [defined |-> TRUE,
              infos |-> [i \in 1..lineCount |->
                            [timestamp |-> raw[i],
                             ageScore |-> score(raw[i]),
                             displayNumber |-> score(raw[i])]]]

\* an extraction that gives up at the first invocation that fails
getGitModificationCountsOrNothing(lineCount, logs) ==
    IF \E i \in 1..lineCount : logs[i] = Undefined THEN <<>>
    ELSE [i \in 1..lineCount |-> logs[i]]

\* lines 188-212.  logs[i] is the number of non-empty lines that
\* git log -L i,i prints, or Undefined when that invocation fails.
getGitModificationCounts(lineCount, logs) ==
    [i \in 1..lineCount |-> IF logs[i] = Undefined THEN 0 ELSE logs[i]]

----------------------------------------------------------------------------
(* detectVcsType.  dirs lists what the directories hold, from the file's    *)
(* containing directory (dirs[1]) upwards to the last directory that        *)
(* path.dirname() reaches, which is its own parent: the filesystem root     *)
(* for an absolute path, "." for a relative one (the fsPath of an untitled  *)
(* document).  path.parse(current).root is that last directory for an       *)
(* absolute path and "" for a relative one.                                 *)

Markers == {".git", ".p4config"}

\* lines 56-64, from the directory dirs[current] on
RECURSIVE Ascend(_, _, _)
Ascend(dirs, absolute, current) ==
    IF absolute /\ current = Len(dirs)
    THEN "root"                              \* current === path.parse(current).root
    ELSE IF ".git" \in dirs[current] THEN "git"
    ELSE IF ".p4config" \in dirs[current] THEN "perforce"
    ELSE IF current = Len(dirs)
    THEN "diverges"                          \* path.dirname(".") is "." again
    ELSE Ascend(dirs, absolute, current + 1)

\* lines 51-72; P4CONFIG is whether process.env.P4CONFIG is set and not empty
detectVcsType(dirs, absolute, P4CONFIG) ==
    LET found == Ascend(dirs, absolute, 1)
    IN  IF found # "root" THEN found
        ELSE IF P4CONFIG THEN "perforce"
        ELSE "none"

----------------------------------------------------------------------------
(* The files behind the documents, as a render cycle finds them.            *)

File(vcs, lineCount, blame, logs) ==
    [vcs |-> vcs, lineCount |-> lineCount, blame |-> blame, logs |-> logs]

FileOf ==
    \* no .git or .p4config above the file, P4CONFIG unset
    ("no-vcs" :> File(detectVcsType(<<{}, {}, {}>>, TRUE, FALSE), 2, BlameFailed, <<Undefined, Undefined>>))
    \* a Perforce workspace: the git commands fail
    @@ ("perforce" :> File(detectVcsType(<<{}, {".p4config"}, {}>>, TRUE, FALSE), 2, BlameFailed, <<Undefined, Undefined>>))
    \* both lines from one commit
    @@ ("one-commit" :>
          File(detectVcsType(<<{}, {".git"}, {}>>, TRUE, FALSE), 2,
               BlameOutput(Porcelain(<<"h1", "h1">>, [h \in Hashes |-> 1], 2)),
               <<1, 1>>))
    \* line 1 changed twice, the second time after line 2 was written
    @@ ("two-commits" :>
          File(detectVcsType(<<{}, {".git"}, {}>>, TRUE, FALSE), 2,
               BlameOutput(Porcelain(<<"h2", "h1">>,
                                     ("h1" :> 1) @@ ("h2" :> 2) @@ ("h3" :> 3), 2)),
               <<2, 1>>))
    \* line n of the ten lines on disk comes from the n-th of ten commits;
    \* the document has an eleventh line that is not saved yet
    @@ ("ten-commits" :>
          File(detectVcsType(<<{}, {".git"}, {}>>, TRUE, FALSE), numAgeLevels + 1,
               BlameOutput(Porcelain([n \in 1..numAgeLevels |-> Commit(n)],
                                     [h \in {Commit(n) : n \in 1..numAgeLevels} |->
                                        CHOOSE n \in 1..numAgeLevels : h = Commit(n)],
                                     numAgeLevels)),
               [n \in 1..(numAgeLevels + 1) |->
                  IF n = 1 THEN 2 ELSE IF n <= numAgeLevels THEN 1 ELSE Undefined]))

Files == DOMAIN FileOf
ShortFiles == {"no-vcs", "perforce", "one-commit", "two-commits"}
LongFiles == {"two-commits", "ten-commits"}

\* the extractors' results for these files
LineInfosOf == [f \in Files |-> getGitLineInfo(FileOf[f].lineCount, FileOf[f].blame)]
LineCountsOf == [f \in Files |-> getGitModificationCounts(FileOf[f].lineCount, FileOf[f].logs)]

----------------------------------------------------------------------------
(* Decorations.  An entry of paint[d] is one decorated line: the index of   *)
(* the decoration type in heatStyles when it was applied, the annotation    *)
(* text, and whether that decoration type is still an element of            *)
(* heatStyles.                                                              *)

Decoration(line, level, text) ==
    [line |-> line, level |-> level, text |-> text, current |-> TRUE]

\* a render that does not clear first
ClearNothing(p) == p

\* heatStyles.forEach((style) => editor.setDecorations(style, []))
ClearDecorations(p) == {e \in p : ~e.current}

\* heatStyles.length = 0: the decoration types still applied are no longer
\* elements of heatStyles
Discard(p) == {[e EXCEPT !.current = FALSE] : e \in p}

Min(S) == CHOOSE x \in S : \A y \in S : x <= y
Max(S) == CHOOSE x \in S : \A y \in S : x >= y

\* the logarithm scaled against the maximum alone, not against the range
\* from the minimum
LogBucketOfMaximum(c, mn, mx, levels) ==
    IF levels >= 1
    THEN Max({b \in 0..(levels - 1) : (mx + 1) ^ b <= (c + 1) ^ (levels - 1)})
    ELSE IF c = mn THEN 0 ELSE -1

\* the ratio scaled by the number of levels
LogBucketByLevels(c, mn, mx, levels) ==
    IF levels >= 1
    THEN Max({b \in 0..levels :
                (mx + 1) ^ b * (mn + 1) ^ (levels - b) <= (c + 1) ^ levels})
    ELSE IF c = mn THEN 0 ELSE -1

\* lines 384-404: Math.floor(((log(c + 1) - log(min + 1)) / (log(max + 1) -
\* log(min + 1))) * (levels - 1)), in exact arithmetic: the largest b with
\* ((max + 1) / (min + 1)) ^ b <= ((c + 1) / (min + 1)) ^ (levels - 1).
\* Negative for levels = 0 and c > min.  (The code computes in double
\* precision: c = min gives exactly 0 and c = max exactly levels - 1; in
\* between, rounding can move a value that is exactly an integer.)
LogBucket(c, mn, mx, levels) ==
    IF levels >= 1
    THEN Max({b \in 0..(levels - 1) :
                (mx + 1) ^ b * (mn + 1) ^ (levels - 1 - b) <= (c + 1) ^ (levels - 1)})
    ELSE IF c = mn THEN 0 ELSE -1

\* The linear scale of the hunk-based variant:
\* step = ceil((max - min) / levelCount), bucket = floor((signal - min) / step),
\* clamped to [0, levelCount - 1]
LinearStep(mn, mx, levels) == (mx - mn + levels - 1) \div levels
Clamp(b, lo, hi) == IF b < lo THEN lo ELSE IF b > hi THEN hi ELSE b
LinearBucket(c, mn, mx, levels) ==
    Clamp((c - mn) \div LinearStep(mn, mx, levels), 0, levels - 1)

\* How a render of one editor ends: the decorations it leaves, where it
\* stopped, the extraction it ran, the largest i for which it evaluated
\* heatStyles[i] (NoIndex if none), and the messages it showed.
NoIndex == -1
Outcome(p, stage, extractor, top, messages) ==
    [paint |-> p, stage |-> stage, extractor |-> extractor, top |-> top,
     messages |-> messages]

Threw(stage) == stage = "threw"

\* lines 236-335
updateHeatmapForRelativeMode(d, p, enabled, styles, f) ==
    LET \* lines 312-334: setDecorations(heatStyles[i], ...) for i = 0..9 throws a
        \* TypeError at the first i that has no decoration type
        applied == IF Len(styles) < numAgeLevels THEN Len(styles) ELSE numAgeLevels
        render(file, cleared, lineInfos) ==
            IF d \notin enabled
            THEN Outcome(cleared, "disabled", "none", NoIndex, {})
            ELSE IF file.vcs \notin {"git", "perforce"}
            THEN Outcome(cleared, "unsupported", "none", NoIndex, {"unsupported-vcs"})
            ELSE IF ~lineInfos.defined
            THEN Outcome(cleared, "failed", "blame", NoIndex, {})
            ELSE IF Len(lineInfos.infos) = 0
            THEN Outcome(cleared, "empty", "blame", NoIndex, {})
            ELSE Outcome(
                   cleared \cup
                   { Decoration(i, lineInfos.infos[i].ageScore - 1,
                                lineInfos.infos[i].displayNumber) :
                       i \in { j \in 1..file.lineCount :
                                 /\ lineInfos.infos[j].ageScore - 1 >= 0
                                 /\ lineInfos.infos[j].ageScore - 1 < numAgeLevels
                                 /\ lineInfos.infos[j].ageScore - 1 < applied } },
                   IF applied < numAgeLevels THEN "threw" ELSE "painted",
                   "blame",
                   IF applied < numAgeLevels THEN applied ELSE numAgeLevels - 1,
                   {})
    IN  render(FileOf[f], ClearDecorations(p), LineInfosOf[f])

\* lines 342-426
updateHeatmapForAbsoluteMode(d, p, enabled, styles, f) ==
    LET scale(file, cleared, lineCounts, minTime, maxTime) ==
            IF d \notin enabled
            THEN Outcome(cleared, "disabled", "none", NoIndex, {})
            ELSE IF file.vcs \notin {"git", "perforce"}
            THEN Outcome(cleared, "unsupported", "none", NoIndex, {"unsupported-vcs"})
            ELSE IF Len(lineCounts) = 0
            THEN Outcome(cleared, "empty", "log", NoIndex, {})
            ELSE IF maxTime - minTime = 0
            THEN Outcome(cleared, "flat", "log", NoIndex, {})
            ELSE IF Len(styles) = 0
            \* decorations is [], so decorations[bucket].push throws a TypeError
            THEN Outcome(cleared, "threw", "log", NoIndex, {})
            ELSE Outcome(
                   cleared \cup
                   { Decoration(i, LogBucket(lineCounts[i], minTime, maxTime, Len(styles)),
                                lineCounts[i]) : i \in 1..file.lineCount },
                   "painted", "log", Len(styles) - 1, {})
        render(file, cleared, lineCounts, values) ==
            scale(file, cleared, lineCounts, Min(values), Max(values))
        extract(file, cleared, lineCounts) ==
            render(file, cleared, lineCounts,
                   {lineCounts[i] : i \in 1..Len(lineCounts)})
    IN  extract(FileOf[f], ClearDecorations(p), LineCountsOf[f])

\* lines 219-228: the body of the forEach
UpdateEditor(mode, d, p, enabled, styles, f) ==
    IF mode = "relative"
    THEN updateHeatmapForRelativeMode(d, p, enabled, styles, f)
    ELSE IF mode = "absolute"
    THEN updateHeatmapForAbsoluteMode(d, p, enabled, styles, f)
    ELSE Outcome(p, "no-render", "none", NoIndex, {})

NoFile == "none"
Hidden == [stage |-> "hidden", extractor |-> "none", top |-> NoIndex, file |-> NoFile]
Skipped == [stage |-> "skipped", extractor |-> "none", top |-> NoIndex, file |-> NoFile]

\* a forEach whose decoration lists are shared by the editors and never
\* emptied: an editor also gets what the other editors carried before
RECURSIVE updateVisibleHeatmapsSharedLists(_, _, _, _, _, _, _)
updateVisibleHeatmapsSharedLists(editors, k, mode, enabled, styles, files, w) ==
    IF k > Len(editors) THEN w
    ELSE LET d == editors[k]
             next(stage, w2) ==
                 IF Threw(stage) THEN w2
                 ELSE updateVisibleHeatmapsSharedLists(editors, k + 1, mode, enabled,
                                                       styles, files, w2)
             visit(o) ==
                 next(o.stage,
                      [paint |-> [w.paint EXCEPT ![d] =
                                    IF o.stage = "painted"
                                    THEN o.paint \cup UNION {w.paint[e] : e \in Docs \ {d}}
                                    ELSE o.paint],
                       cycle |-> [w.cycle EXCEPT ![d] =
                                    [stage |-> o.stage, extractor |-> o.extractor,
                                     top |-> o.top,
                                     file |-> IF o.stage \in {"disabled", "no-render"}
                                              THEN NoFile ELSE files[d]]],
                       shown |-> w.shown \cup o.messages])
         IN  visit(UpdateEditor(mode, d, w.paint[d], enabled, styles, files[d]))

\* lines 218-229.  editors is visibleTextEditors in the order forEach
\* visits them; an exception thrown for one editor ends the forEach.
\* w = [paint, cycle, shown]
RECURSIVE updateVisibleHeatmaps(_, _, _, _, _, _, _)
updateVisibleHeatmaps(editors, k, mode, enabled, styles, files, w) ==
    IF k > Len(editors) THEN w
    ELSE LET d == editors[k]
             next(stage, w2) ==
                 IF Threw(stage) THEN w2
                 ELSE updateVisibleHeatmaps(editors, k + 1, mode, enabled, styles, files, w2)
             visit(o) ==
                 next(o.stage,
                      [paint |-> [w.paint EXCEPT ![d] = o.paint],
                       cycle |-> [w.cycle EXCEPT ![d] =
                                    [stage |-> o.stage, extractor |-> o.extractor,
                                     top |-> o.top,
                                     file |-> IF o.stage \in {"disabled", "no-render"}
                                              THEN NoFile ELSE files[d]]],
                       shown |-> w.shown \cup o.messages])
         IN  visit(UpdateEditor(mode, d, w.paint[d], enabled, styles, files[d]))

\* buildDecorations without lines 531-533
buildDecorationsKeepingPaint(c, vis, w) ==
    IF LevelsRejected(c)
    THEN [w EXCEPT !.shown = @ \cup {"invalid-heat-levels"}]
    ELSE [styles |-> PaletteOf(EffectiveLevels(c), HeatColor(c), CoolColor(c)),
          paint |-> [d \in Docs |-> Discard(w.paint[d])],
          shown |-> w.shown]

\* lines 507-549.  w = [styles, paint, shown]
buildDecorations(c, vis, w) ==
    IF LevelsRejected(c)
    THEN [w EXCEPT !.shown = @ \cup {"invalid-heat-levels"}]
    ELSE [styles |-> PaletteOf(EffectiveLevels(c), HeatColor(c), CoolColor(c)),
          paint |-> [d \in Docs |->
                       Discard(IF d \in vis THEN ClearDecorations(w.paint[d])
                               ELSE w.paint[d])],
          shown |-> w.shown]

----------------------------------------------------------------------------
(* The renderer state machine.  The commands showVcsType (lines 469-478)   *)
(* and showCurrentMode (lines 501-505) read the state and show a message;  *)
(* they change nothing and are left to the stuttering steps.               *)

\* the values of the "heatmap" section the model visits
CfgLevels == {-1, 2, DEFAULT_HEAT_LEVELS}
Configs ==
    [mode : Modes, heatLevels : CfgLevels,
     heatColour : {NoColour}, coolColour : {NoColour}]

\* the orders in which forEach can visit the editors of S
Orders(S) ==
    {o \in [1..Cardinality(S) -> S] : \A i, j \in 1..Cardinality(S) : o[i] = o[j] => i = j}

NoMode == "none"
\* lines 219-221: the mode is read once per visible editor
ReadMode(vis, mode) == IF vis = {} THEN NoMode ELSE mode
NoPaint == [d \in Docs |-> {}]
NotReached(vis) == [d \in Docs |-> IF d \in vis THEN Skipped ELSE Hidden]

\* What the model records of the handler that runs: which command or
\* listener it is ("other" for a change of the editors), the mode that its
\* updateVisibleHeatmaps read from the store (NoMode if it did not get
\* there), and how many toggle commands in a row it ends (counted up to 2).  The commands leave the active editor as it is.
Handler(op, mode) ==
    /\ lastOp' = [op |-> op, mode |-> mode,
                  toggles |-> IF op # "toggle" THEN 0
                              ELSE IF lastOp.toggles = 0 THEN 1 ELSE 2]
    /\ enabledBefore' = enabledForFiles

AnyFile == CHOOSE f \in Files : TRUE

\* the editors whose file a repaint looks at
Extracting(mode, vis, enabled) ==
    IF mode \in {"relative", "absolute"} THEN vis \cap enabled ELSE {}

\* updateVisibleHeatmaps() as the last call of a handler
Repaint(mode, styles, p, messages) ==
    \E editors \in {order'},
       found \in [Extracting(mode, visible', enabledForFiles') -> workspace] :
      \E w \in {updateVisibleHeatmaps(editors, 1, mode, enabledForFiles', styles,
                    [d \in Docs |-> IF d \in DOMAIN found THEN found[d] ELSE AnyFile],
                    [paint |-> p, cycle |-> NotReached(visible'), shown |-> messages])} :
            /\ paint' = w.paint
            /\ cycle' = w.cycle
            /\ shown' = w.shown

\* a handler that returns before it calls updateVisibleHeatmaps
NoRepaint(messages) ==
    /\ paint' = paint
    /\ cycle' = NotReached(visible')
    /\ shown' = messages

\* lines 432-445
setHeatmapEnabled(enable) ==
    /\ Handler(IF enable THEN "enable" ELSE "disable",
               IF active = NoEditor THEN NoMode ELSE ReadMode(visible, cfg.mode))
    /\ UNCHANGED <<heatStyles, visible, order, workspace, active, cfg>>
    /\ IF active = NoEditor
       THEN /\ UNCHANGED enabledForFiles
            /\ NoRepaint({})
       ELSE /\ enabledForFiles' = IF enable THEN enabledForFiles \cup {active}
                                  ELSE enabledForFiles \ {active}
            /\ Repaint(cfg.mode, heatStyles, paint, {})

Enable == setHeatmapEnabled(TRUE)
Disable == setHeatmapEnabled(FALSE)

\* toggle that never removes
ToggledAddOnly(enabled, d) == enabled \cup {d}

\* toggle whose delete empties the set
ToggledClearing(enabled, d) == IF d \in enabled THEN {} ELSE enabled \cup {d}

\* lines 456-460
Toggled(enabled, d) == IF d \in enabled THEN enabled \ {d} ELSE enabled \cup {d}

\* lines 450-463
toggleHeatmap ==
    /\ Handler("toggle", IF active = NoEditor THEN NoMode ELSE ReadMode(visible, cfg.mode))
    /\ UNCHANGED <<heatStyles, visible, order, workspace, active, cfg>>
    /\ IF active = NoEditor
       THEN /\ UNCHANGED enabledForFiles
            /\ NoRepaint({})
       ELSE /\ enabledForFiles' = Toggled(enabledForFiles, active)
            /\ Repaint(cfg.mode, heatStyles, paint, {})

\* lines 483-496.  update() only requests the write and returns a promise
\* that nobody awaits: the store still holds the old value when
\* updateVisibleHeatmaps reads it, and the new value arrives later, as a
\* configuration change (ConfigurationChanged).
setModeAbsolute ==
    /\ Handler("setModeAbsolute", ReadMode(visible, cfg.mode))
    /\ UNCHANGED <<enabledForFiles, heatStyles, visible, order, workspace, active, cfg>>
    /\ Repaint(cfg.mode, heatStyles, paint, {})

setModeRelative ==
    /\ Handler("setModeRelative", ReadMode(visible, cfg.mode))
    /\ UNCHANGED <<enabledForFiles, heatStyles, visible, order, workspace, active, cfg>>
    /\ Repaint(cfg.mode, heatStyles, paint, {})

\* lines 554-559: the listener, run with the store holding newCfg
onDidChangeConfiguration(newCfg) ==
    \E b \in {buildDecorations(newCfg, visible,
                [styles |-> heatStyles, paint |-> paint, shown |-> {}])} :
        /\ cfg' = newCfg
        /\ heatStyles' = b.styles
        /\ UNCHANGED <<enabledForFiles, visible, order, workspace, active>>
        /\ Repaint(newCfg.mode, b.styles, b.paint, b.shown)

\* one setting of the section changes: the user edits it, or the write of
\* a set-mode command arrives
ConfigurationChanged ==
    \E newCfg \in Configs :
        /\ Cardinality({k \in DOMAIN cfg : newCfg[k] # cfg[k]}) = 1
        /\ Handler("configurationChanged", ReadMode(visible, newCfg.mode))
        /\ onDidChangeConfiguration(newCfg)

\* lines 587-593.  An editor that is shown anew starts without decorations.
onDidChangeVisibleTextEditors ==
    \E vis \in SUBSET Docs, act \in Docs \cup {NoEditor} :
        /\ vis # visible
        /\ act \in vis \cup {NoEditor}
        /\ visible' = vis
        /\ order' \in Orders(vis)
        /\ active' = act
        /\ Handler("other", ReadMode(vis, cfg.mode))
        /\ UNCHANGED <<enabledForFiles, heatStyles, workspace, cfg>>
        /\ Repaint(cfg.mode, heatStyles,
                   [d \in Docs |-> IF d \in vis \cap visible THEN paint[d] ELSE {}], {})

\* the focus moves to another visible editor, or away from the editors;
\* the extension does not listen to this
FocusChanged ==
    \E act \in (visible \cup {NoEditor}) \ {active} :
        /\ active' = act
        /\ Handler("other", NoMode)
        /\ UNCHANGED <<enabledForFiles, heatStyles, visible, order, workspace, cfg,
                       paint, cycle, shown>>

\* lines 551-594: the state after activate() with the store holding c
Activated(c) ==
    /\ enabledForFiles = {}
    /\ cfg = c
    /\ heatStyles = buildDecorations(c, {}, [styles |-> <<>>, paint |-> NoPaint, shown |-> {}]).styles
    /\ shown = buildDecorations(c, {}, [styles |-> <<>>, paint |-> NoPaint, shown |-> {}]).shown
    /\ paint = NoPaint
    /\ lastOp = [op |-> "activate", mode |-> NoMode, toggles |-> 0]
    /\ enabledBefore = {}

BlameIdle ==
    /\ blameIn = [lineCount |-> 1, ok |-> FALSE, who |-> <<>>, time |-> [h \in Hashes |-> 1]]
    /\ blameOut = [defined |-> FALSE, infos |-> <<>>]
    /\ blamePc = "ready"

FnIdle ==
    /\ fnIn = <<>>
    /\ fnOut = <<>>
    /\ fnPc = "idle"

Init ==
    /\ visible \in SUBSET Docs
    /\ order \in Orders(visible)
    /\ workspace = ShortFiles
    /\ active \in visible \cup {NoEditor}
    /\ \E c \in Configs : Activated(c)
    /\ cycle = NotReached(visible)
    /\ BlameIdle
    /\ FnIdle

Next ==
    \/ (Enable /\ UNCHANGED functionVars)
    \/ (Disable /\ UNCHANGED functionVars)
    \/ (toggleHeatmap /\ UNCHANGED functionVars)
    \/ (setModeAbsolute /\ UNCHANGED functionVars)
    \/ (setModeRelative /\ UNCHANGED functionVars)
    \/ (ConfigurationChanged /\ UNCHANGED functionVars)
    \/ (onDidChangeVisibleTextEditors /\ UNCHANGED functionVars)
    \/ (FocusChanged /\ UNCHANGED functionVars)

Spec == Init /\ [][Next]_vars

----------------------------------------------------------------------------
(* SpecPalette: one editor, absolute mode, heatLevels from -2 to MaxLevels, *)
(* two heat colours and two cool colours.                                   *)

PaletteLevels == -2..MaxLevels
PaletteHeatColours == {NoColour, <<0, 128, 255, 255>>}
PaletteCoolColours == {NoColour, <<255, 255, 0, 255>>}
PaletteConfigs ==
    [mode : {"absolute"}, heatLevels : PaletteLevels,
     heatColour : PaletteHeatColours, coolColour : PaletteCoolColours]

PaletteConfigurationChanged ==
    \E newCfg \in PaletteConfigs :
        /\ Cardinality({k \in DOMAIN cfg : newCfg[k] # cfg[k]}) = 1
        /\ Handler("configurationChanged", ReadMode(visible, newCfg.mode))
        /\ onDidChangeConfiguration(newCfg)

InitPalette ==
    /\ visible = {"d1"}
    /\ order = <<"d1">>
    /\ workspace = ShortFiles
    /\ active = "d1"
    /\ \E c \in PaletteConfigs : Activated(c)
    /\ cycle = NotReached(visible)
    /\ BlameIdle
    /\ FnIdle

NextPalette ==
    \/ (PaletteConfigurationChanged /\ UNCHANGED functionVars)
    \/ (Enable /\ UNCHANGED functionVars)
    \/ (Disable /\ UNCHANGED functionVars)
    \/ (toggleHeatmap /\ UNCHANGED functionVars)
    \/ (setModeAbsolute /\ UNCHANGED functionVars)
    \/ (setModeRelative /\ UNCHANGED functionVars)

SpecPalette == InitPalette /\ [][NextPalette]_vars

----------------------------------------------------------------------------
(* SpecLong: the handlers with one editor, on files with a longer history.  *)

InitLong ==
    /\ visible = {"d1"}
    /\ order = <<"d1">>
    /\ workspace = LongFiles
    /\ active = "d1"
    /\ \E c \in Configs : Activated(c)
    /\ cycle = NotReached(visible)
    /\ BlameIdle
    /\ FnIdle

NextLong ==
    \/ (ConfigurationChanged /\ UNCHANGED functionVars)
    \/ (Enable /\ UNCHANGED functionVars)
    \/ (Disable /\ UNCHANGED functionVars)
    \/ (toggleHeatmap /\ UNCHANGED functionVars)
    \/ (setModeAbsolute /\ UNCHANGED functionVars)
    \/ (setModeRelative /\ UNCHANGED functionVars)

SpecLong == InitLong /\ [][NextLong]_vars

----------------------------------------------------------------------------
(* SpecBlame: getGitLineInfo on a document of blameIn.lineCount lines,      *)
(* when git blame fails (ok = FALSE) or attributes line n of the file on    *)
(* disk to commit who[n], committed at time[who[n]].                        *)

BlameInputs ==
    { [lineCount |-> n, ok |-> ok, who |-> who, time |-> time] :
        n \in 1..MaxLines, ok \in BOOLEAN,
        who \in UNION {[1..m -> Hashes] : m \in 0..MaxLines},
        time \in [Hashes -> 1..MaxTime] }

BlameOf(in) ==
    IF in.ok THEN BlameOutput(Porcelain(in.who, in.time, Len(in.who))) ELSE BlameFailed

InitBlame ==
    /\ visible = {}
    /\ order = <<>>
    /\ workspace = {}
    /\ active = NoEditor
    /\ Activated([mode |-> "age", heatLevels |-> DEFAULT_HEAT_LEVELS,
                  heatColour |-> NoColour, coolColour |-> NoColour])
    /\ cycle = NotReached(visible)
    /\ blameIn \in BlameInputs
    /\ blameOut = [defined |-> FALSE, infos |-> <<>>]
    /\ blamePc = "ready"
    /\ FnIdle

RunGetGitLineInfo ==
    /\ blamePc = "ready"
    /\ blameOut' = getGitLineInfo(blameIn.lineCount, BlameOf(blameIn))
    /\ blamePc' = "done"
    /\ UNCHANGED <<blameIn, rendererVars, fnVars>>

NextBlame == RunGetGitLineInfo

SpecBlame == InitBlame /\ [][NextBlame]_vars

----------------------------------------------------------------------------
(* SpecRank: getGitLineInfo on a file whose line n was last touched by the  *)
(* n-th of up to MaxCommits commits, with the document as long as the file  *)
(* or one line longer, for four ways the commit times can be ordered.       *)

CommitTimes ==
    { [h \in Commits |-> CHOOSE n \in 1..MaxCommits : h = Commit(n)],
      [h \in Commits |-> MaxCommits + 1 - (CHOOSE n \in 1..MaxCommits : h = Commit(n))],
      [h \in Commits |-> ((CHOOSE n \in 1..MaxCommits : h = Commit(n)) + 1) \div 2],
      [h \in Commits |-> 1] }

RankInputs ==
    { [lineCount |-> n, ok |-> TRUE, who |-> [i \in 1..m |-> Commit(i)], time |-> time] :
        n \in 1..(MaxCommits + 1), m \in 0..MaxCommits, time \in CommitTimes }

InitRank ==
    /\ visible = {}
    /\ order = <<>>
    /\ workspace = {}
    /\ active = NoEditor
    /\ Activated([mode |-> "age", heatLevels |-> DEFAULT_HEAT_LEVELS,
                  heatColour |-> NoColour, coolColour |-> NoColour])
    /\ cycle = NotReached(visible)
    /\ blameIn \in {in \in RankInputs : in.lineCount \in {Len(in.who), Len(in.who) + 1}}
    /\ blameOut = [defined |-> FALSE, infos |-> <<>>]
    /\ blamePc = "ready"
    /\ FnIdle

SpecRank == InitRank /\ [][NextBlame]_vars

----------------------------------------------------------------------------
(* SpecBucket: the bucket of a signal between the smallest and the largest  *)
(* signal of a document, which differ (line 379), for 1..MaxBucketLevels    *)
(* levels.                                                                  *)

\* the renderer right after activation with the default settings
RendererAtRest ==
    /\ visible = {}
    /\ order = <<>>
    /\ workspace = {}
    /\ active = NoEditor
    /\ Activated([mode |-> "age", heatLevels |-> DEFAULT_HEAT_LEVELS,
                  heatColour |-> NoColour, coolColour |-> NoColour])
    /\ cycle = NotReached(visible)

BucketInputs ==
    { [signal |-> c, min |-> mn, max |-> mx, levelCount |-> n] :
        c \in 0..MaxCount, mn \in 0..MaxCount, mx \in 0..MaxCount,
        n \in 1..MaxBucketLevels }

InitBucket ==
    /\ RendererAtRest
    /\ BlameIdle
    /\ fnIn \in {in \in BucketInputs : in.min < in.max /\ in.min <= in.signal /\ in.signal <= in.max}
    /\ fnOut = <<>>
    /\ fnPc = "ready"

RunBucket ==
    /\ fnPc = "ready"
    /\ fnOut' = [log |-> LogBucket(fnIn.signal, fnIn.min, fnIn.max, fnIn.levelCount),
                 linear |-> LinearBucket(fnIn.signal, fnIn.min, fnIn.max, fnIn.levelCount)]
    /\ fnPc' = "bucketed"
    /\ UNCHANGED <<fnIn, rendererVars, blameVars>>

NextBucket == RunBucket

SpecBucket == InitBucket /\ [][NextBucket]_vars

----------------------------------------------------------------------------
(* SpecDetect: detectVcsType for every way up to MaxDepth directories can   *)
(* hold the two markers.                                                    *)

DetectInputs ==
    { [dirs |-> dirs, absolute |-> absolute, P4CONFIG |-> env] :
        dirs \in UNION {[1..n -> SUBSET Markers] : n \in 1..MaxDepth},
        absolute \in BOOLEAN, env \in BOOLEAN }

InitDetect ==
    /\ RendererAtRest
    /\ BlameIdle
    /\ fnIn \in DetectInputs
    /\ fnOut = <<>>
    /\ fnPc = "ready"

RunDetect ==
    /\ fnPc = "ready"
    /\ fnOut' = detectVcsType(fnIn.dirs, fnIn.absolute, fnIn.P4CONFIG)
    /\ fnPc' = "detected"
    /\ UNCHANGED <<fnIn, rendererVars, blameVars>>

NextDetect == RunDetect

SpecDetect == InitDetect /\ [][NextDetect]_vars

----------------------------------------------------------------------------
(* SpecCounts: getGitModificationCounts on a document of up to MaxLines     *)
(* lines, where git log fails for any of the lines or prints up to MaxCount *)
(* lines for it.                                                            *)

CountInputs ==
    { [lineCount |-> n, logs |-> logs] :
        n \in 1..MaxLines,
        logs \in UNION {[1..m -> {Undefined} \cup 0..MaxCount] : m \in 1..MaxLines} }

InitCounts ==
    /\ RendererAtRest
    /\ BlameIdle
    /\ fnIn \in {in \in CountInputs : Len(in.logs) = in.lineCount}
    /\ fnOut = <<>>
    /\ fnPc = "ready"

RunCounts ==
    /\ fnPc = "ready"
    /\ fnOut' = getGitModificationCounts(fnIn.lineCount, fnIn.logs)
    /\ fnPc' = "counted"
    /\ UNCHANGED <<fnIn, rendererVars, blameVars>>

NextCounts == RunCounts

SpecCounts == InitCounts /\ [][NextCounts]_vars

----------------------------------------------------------------------------
(* Properties *)

\* C1: after every trigger, every visible document that is not in
\* enabledForFiles carries no decoration, whatever the stored mode.
C1_DisabledDocumentsUnpainted ==
    \A d \in visible \ enabledForFiles : paint[d] = {}

\* C2: a repaint of a visible enabled document under a supported VCS runs
\* the blame extraction when the stored mode is age and the modification
\* count extraction when it is line_commit.
C2_ExtractorMatchesMode ==
    \A d \in visible \cap enabledForFiles :
        cycle[d].stage \notin {"skipped", "unsupported"} =>
            /\ cfg.mode = "age" => cycle[d].extractor = "blame"
            /\ cfg.mode = "line_commit" => cycle[d].extractor = "log"

\* C3: the second of two toggle commands in a row leaves enabledForFiles as
\* it was before the first.
C3_ToggleTwiceRestores ==
    [][lastOp'.toggles = 2 => enabledForFiles' = enabledBefore]_vars

C3_Witness ==
    /\ lastOp.toggles = 2
    /\ active \in Docs
    /\ active \notin enabledForFiles
    /\ enabledForFiles # {}

\* C4: enable adds the active document, disable removes it, toggle flips
\* it, each leaves the other documents' membership alone, and no other
\* handler and no command without an active editor changes enabledForFiles.
C4_MembershipFrame ==
    [][ /\ (lastOp'.op = "enable" /\ active # NoEditor)
            => enabledForFiles' = enabledForFiles \cup {active}
        /\ (lastOp'.op = "disable" /\ active # NoEditor)
            => enabledForFiles' = enabledForFiles \ {active}
        /\ (lastOp'.op = "toggle" /\ active # NoEditor)
            => /\ enabledForFiles' \ {active} = enabledForFiles \ {active}
               /\ active \in enabledForFiles' <=> active \notin enabledForFiles
        /\ (lastOp'.op \notin {"enable", "disable", "toggle"} \/ active = NoEditor)
            => enabledForFiles' = enabledForFiles ]_vars

C4_Witness ==
    \E d, e \in Docs :
        /\ d # e
        /\ lastOp.op = "toggle"
        /\ active = d
        /\ d \notin enabledForFiles
        /\ e \in enabledForFiles
        /\ cycle[e].stage \in {"unsupported", "failed"}

EarlyStops == {"unsupported", "failed", "empty", "flat"}

\* C5: a render cycle that stops early (unsupported VCS, extraction
\* failure, empty or flat signal) leaves the document without decorations.
C5_EarlyStopLeavesNoPaint ==
    \A d \in Docs : cycle[d].stage \in EarlyStops => paint[d] = {}

C5_Witness ==
    \E d, e \in Docs :
        /\ d \in visible \cap enabledForFiles
        /\ cycle[d].stage = "flat"
        /\ cycle[e].stage = "painted"
        /\ paint[e] # {}

\* C6: with heatLevels = 1 the palette has one entry, the hot colour.
C6_SingleLevelIsHot ==
    cfg.heatLevels = 1 =>
        /\ Len(heatStyles) = 1
        /\ heatStyles[1] = HeatColor(cfg)

\* C7: after a build with heatLevels = n >= 1 the palette has n entries,
\* for n > 1 the first is the cool colour and the last the hot colour, and
\* the palette changes only when a configuration change rebuilds it.
C7_PaletteShape ==
    /\ [](cfg.heatLevels >= 1 =>
            /\ Len(heatStyles) = cfg.heatLevels
            /\ cfg.heatLevels > 1 =>
                 /\ heatStyles[1] = CoolColor(cfg)
                 /\ heatStyles[cfg.heatLevels] = HeatColor(cfg))
    /\ [][heatStyles' # heatStyles => lastOp'.op = "configurationChanged"]_vars

C7_Witness ==
    /\ cfg.heatLevels = 3
    /\ cfg.coolColour # NoColour
    /\ Len(heatStyles) = 3
    /\ lastOp.op = "toggle"
    /\ \E d \in Docs : paint[d] # {}

\* C8: a build with heatLevels below 1, zero included, shows the
\* configuration error and leaves the palette as it was.
C8_LevelsBelowOneRejected ==
    [][(lastOp'.op = "configurationChanged" /\ cfg'.heatLevels < 1) =>
            /\ "invalid-heat-levels" \in shown'
            /\ heatStyles' = heatStyles]_vars

\* C9: every decoration on an editor belongs to the palette that is
\* current, and a repaint that painted a document did so after the rebuild.
C9_PaintUsesCurrentPalette ==
    \A d \in Docs :
        /\ \A e \in paint[d] : e.current /\ e.level \in 0..(Len(heatStyles) - 1)
        /\ cycle[d].stage = "painted" => paint[d] # {}

C9_Witness ==
    \E d \in Docs :
        /\ lastOp.op = "configurationChanged"
        /\ cfg.heatLevels = 2
        /\ cycle[d].stage = "painted"
        /\ \E e \in paint[d] : e.level = 1

\* the distinct commit times of the commits git blame names
AttributedTimes(in) == {in.time[in.who[k]] : k \in 1..Len(in.who)}
DenseRank(in, t) == Cardinality({u \in AttributedTimes(in) : u <= t})
Committed(in) == 1..(IF in.lineCount < Len(in.who) THEN in.lineCount ELSE Len(in.who))

Unattributed(in) == (1..in.lineCount) \ Committed(in)

C12_RankWithinTen ==
    (blamePc = "done" /\ blameOut.defined) =>
        \A i \in 1..Len(blameOut.infos) : blameOut.infos[i].ageScore \in 1..10

C14_GitFiveLevelsUp ==
    (fnPc = "detected" /\ fnIn.absolute /\ Len(fnIn.dirs) >= 6
       /\ ".git" \in fnIn.dirs[6]) =>
        fnOut = "git"

NewestLines(f) ==
    LET infos == LineInfosOf[f].infos
    IN  {i \in 1..Len(infos) : \A j \in 1..Len(infos) : infos[j].ageScore <= infos[i].ageScore}

\* C15: after a relative-mode render of an enabled document that ran to
\* its end, the most recently changed lines carry the hottest palette
\* entry, the last one of heatStyles.
C15_NewestLinesHottest ==
    \A d \in Docs :
        (cycle[d].stage = "painted" /\ cycle[d].extractor = "blame") =>
            \A i \in NewestLines(cycle[d].file) :
                \E e \in paint[d] :
                    /\ e.line = i
                    /\ e.current
                    /\ e.level = Len(heatStyles) - 1

\* C17: with heatLevels >= 1 a relative-mode render evaluates heatStyles[i]
\* and paints only for indices i within 0..heatLevels-1, the palette's
\* length.
C17_PaletteIndexInRange ==
    \A d \in Docs :
        (cfg.heatLevels >= 1 /\ lastOp.mode = "relative" /\ cycle[d].extractor = "blame") =>
            /\ cycle[d].top <= cfg.heatLevels - 1
            /\ cycle[d].top <= Len(heatStyles) - 1
            /\ \A e \in paint[d] : e.level \in 0..(cfg.heatLevels - 1)

\* the raw signal of line i of file f for the extraction that ran
RawSignal(f, extractor, i) ==
    IF extractor = "blame" THEN LineInfosOf[f].infos[i].displayNumber
    ELSE LineCountsOf[f][i]

\* C18: after a render cycle that ran to its end every line of the
\* document is painted with exactly one palette level and annotated with
\* its raw signal: the count in absolute mode, the display rank in
\* relative mode.
C18_EveryLinePainted ==
    \A d \in Docs :
        cycle[d].stage = "painted" =>
            /\ \A i \in 1..FileOf[cycle[d].file].lineCount :
                 /\ Cardinality({e \in paint[d] : e.line = i}) = 1
                 /\ \A e \in paint[d] :
                      e.line = i => e.text = RawSignal(cycle[d].file, cycle[d].extractor, i)
            /\ \A e \in paint[d] : e.line \in 1..FileOf[cycle[d].file].lineCount

\* C19: the repaint that a set-mode command starts reads the mode that the
\* command has just written, and runs that mode's extraction.
C19_SetModeRendersRequestedMode ==
    /\ lastOp.op = "setModeAbsolute" =>
         /\ lastOp.mode \in {"absolute", NoMode}
         /\ \A d \in Docs : cycle[d].extractor \in {"log", "none"}
    /\ lastOp.op = "setModeRelative" =>
         /\ lastOp.mode \in {"relative", NoMode}
         /\ \A d \in Docs : cycle[d].extractor \in {"blame", "none"}

\* the handlers whose only effect is the one of updateVisibleHeatmaps
RenderOnly == {"setModeAbsolute", "setModeRelative", "other"}

\* C20: a render trigger that follows another one with the same
\* enabledForFiles, configuration, palette, visible editors and file
\* histories leaves every document's decorations as they were, and a
\* render changes neither enabledForFiles nor the palette nor the stored
\* mode.
C20_RenderIdempotent ==
    /\ [][ ( /\ lastOp.mode # NoMode
             /\ lastOp'.mode # NoMode
             /\ enabledForFiles' = enabledForFiles
             /\ cfg' = cfg
             /\ heatStyles' = heatStyles
             /\ visible' = visible
             /\ order' = order
             /\ \A d \in Docs : cycle'[d].file = cycle[d].file )
           => paint' = paint ]_vars
    /\ [][ lastOp'.op \in RenderOnly =>
             /\ enabledForFiles' = enabledForFiles
             /\ heatStyles' = heatStyles
             /\ cfg' = cfg ]_vars

C20_Witness ==
    /\ lastOp.op = "setModeAbsolute"
    /\ lastOp.mode = "relative"
    /\ visible = Docs
    /\ \E d, e \in Docs :
         /\ cycle[d].stage = "painted"
         /\ cycle[d].file = "two-commits"
         /\ cycle[e].stage = "painted"
         /\ cycle[e].file = "one-commit"

\* the directories of dirs that hold a marker
Marked(dirs) == {i \in 1..Len(dirs) : dirs[i] # {}}

\* the class that the nearest marked directory gives, the last directory of
\* the walk included; without one, what the environment gives
NearestMarker(dirs, P4CONFIG) ==
    IF Marked(dirs) # {}
    THEN IF ".git" \in dirs[Min(Marked(dirs))] THEN "git" ELSE "perforce"
    ELSE IF P4CONFIG THEN "perforce" ELSE "none"

\* C21: detectVcsType terminates for every file path and returns the class
\* of the nearest directory that holds a marker, from the file's directory
\* up to and including the last directory of the walk (.git wins over
\* .p4config in one directory); without such a directory it returns
\* perforce if P4CONFIG is set and nothing otherwise.
C21_NearestMarkerUpToRoot ==
    fnPc = "detected" => fnOut = NearestMarker(fnIn.dirs, fnIn.P4CONFIG)

\* C22: in absolute mode with min < max and levelCount >= 1 the bucket is
\* monotone non-decreasing in the modification count (no smaller count of
\* the document gets a larger bucket), the minimum count gets bucket 0 and
\* the maximum count gets bucket levelCount - 1.
C22_BucketMonotone ==
    (fnPc = "bucketed" /\ fnIn.levelCount >= 1 /\ fnIn.min < fnIn.max) =>
        /\ \A c \in fnIn.min..fnIn.signal :
             LogBucket(c, fnIn.min, fnIn.max, fnIn.levelCount) <= fnOut.log
        /\ fnIn.signal = fnIn.min => fnOut.log = 0
        /\ fnIn.signal = fnIn.max => fnOut.log = fnIn.levelCount - 1

C22_Witness ==
    /\ fnPc = "bucketed"
    /\ fnIn.levelCount = 4
    /\ fnIn.min = 1
    /\ fnIn.max = 5
    /\ fnIn.signal = 5
    /\ fnOut.log = 3
    /\ LogBucket(3, fnIn.min, fnIn.max, fnIn.levelCount) = 1
    /\ LogBucket(1, fnIn.min, fnIn.max, fnIn.levelCount) = 0

====
